---- MODULE Spec2Model ----
(***************************************************************************)
(* A model of Tee.py: the file-backed Tee writer, the RAM-backed TeeToRAM  *)
(* writer, the process-wide sys.stdout / sys.stderr they swap, and the     *)
(* text files they write through Python's buffered file objects.           *)
(*                                                                         *)
(* Text is a sequence of one-character strings.  File content is a         *)
(* sequence of bytes, each written as a string: an ASCII character is its  *)
(* own byte, the non-ASCII character U+00E9 is two bytes (UTF-8).            *)
(***************************************************************************)
EXTENDS Integers, Sequences, FiniteSets, TLC

\* ------------------------------------------------------------------------
\* Bounds of the exploration
\* ------------------------------------------------------------------------
MaxCalls == 5       \* calls and storage events of one run
MaxBegins == 2      \* calls of begin(), all writers together
MaxWrites == 2      \* calls of write(), all streams together
MaxChecks == 2      \* calls of next_logfiles(), all writers together
MaxFaults == 1      \* times a storage device starts failing
MaxPersists == 1    \* write_ram_to_logfiles() calls
MaxPathLen == 5     \* characters of a base path given to _get_numbered_path
MaxIndex == 11      \* the largest index given to _get_numbered_path
FlushBytes == 64    \* buffered bytes at which the platform flushes by itself

\* ------------------------------------------------------------------------
\* Text, bytes and their conversion
\* ------------------------------------------------------------------------
UNSET == "<unset>"          \* an attribute that was never assigned
None == 0                   \* Python's None in a list of file handles

EncodeChar(c) == IF c = "U+00E9" THEN <<"C3", "A9">> ELSE <<c>>

RECURSIVE Encode(_)
Encode(text) ==
    LET n == Len(text)
    IN  IF n = 0 THEN <<>>
        ELSE IF n = 1 THEN EncodeChar(text[1])
        ELSE Encode(SubSeq(text, 1, n \div 2))
                \o Encode(SubSeq(text, n \div 2 + 1, n))

\* Reading a file back as text.  The byte A9 right after a C3 is the second
\* byte of U+00E9; a C3 or an A9 anywhere else is no valid encoding and
\* reads as the replacement marker "?".
Decode(bytes) ==
    LET Second(i) == bytes[i] = "A9" /\ i > 1 /\ bytes[i - 1] = "C3"
        First(i) == bytes[i] = "C3" /\ i < Len(bytes) /\ bytes[i + 1] = "A9"
        marked == [i \in 1..Len(bytes) |->
                     IF Second(i) THEN "<second byte>"
                     ELSE IF First(i) THEN "U+00E9"
                     ELSE IF bytes[i] \in {"C3", "A9"} THEN "?"
                     ELSE bytes[i]]
        Kept(c) == c # "<second byte>"
    IN  SelectSeq(marked, Kept)

\* [v] * n
RECURSIVE Repeat(_, _)
Repeat(v, n) == IF n = 0 THEN <<>> ELSE Append(Repeat(v, n - 1), v)

DigitChar(d) == <<"0", "1", "2", "3", "4", "5", "6", "7", "8", "9">>[d + 1]

\* str(n) for n >= 0, as an f-string formats an int
RECURSIVE Digits(_)
Digits(n) ==
    IF n < 10 THEN <<DigitChar(n)>>
    ELSE Digits(n \div 10) \o <<DigitChar(n % 10)>>

\* ------------------------------------------------------------------------
\* os.path on POSIX paths
\* ------------------------------------------------------------------------
\* p.rfind(c): the last position of c in p, 0 when absent
RECURSIVE RFind(_, _)
RFind(p, c) ==
    IF p = <<>> THEN 0
    ELSE IF p[Len(p)] = c THEN Len(p)
    ELSE RFind(SubSeq(p, 1, Len(p) - 1), c)

\* os.path.splitext: the extension starts at the last dot of the last
\* segment; leading dots of that segment do not start an extension.
RECURSIVE SplitAt(_, _, _)
SplitAt(p, filenameIndex, dotIndex) ==
    IF filenameIndex >= dotIndex THEN <<p, <<>>>>
    ELSE IF p[filenameIndex] # "."
         THEN <<SubSeq(p, 1, dotIndex - 1), SubSeq(p, dotIndex, Len(p))>>
    ELSE SplitAt(p, filenameIndex + 1, dotIndex)

splitext(p) ==
    LET sepIndex == RFind(p, "/")
        dotIndex == RFind(p, ".")
    IN  IF dotIndex > sepIndex THEN SplitAt(p, sepIndex + 1, dotIndex)
        ELSE <<p, <<>>>>

\* os.path.dirname: everything before the last slash, without trailing
\* slashes unless it is all slashes
RECURSIVE RStripSlash(_)
RStripSlash(h) ==
    IF h = <<>> THEN <<>>
    ELSE IF h[Len(h)] = "/" THEN RStripSlash(SubSeq(h, 1, Len(h) - 1))
    ELSE h

dirname(p) ==
    LET i == RFind(p, "/")
        head == SubSeq(p, 1, i)
    IN  IF RStripSlash(head) = <<>> THEN head ELSE RStripSlash(head)

\* a numbering that puts the number at the very end of the path
MutNumberedPathAppend(path_original, logfile_number) ==
    path_original \o <<"_">> \o Digits(logfile_number)

\* Tee._get_numbered_path
NumberedPath(path_original, logfile_number) ==
    LET root == splitext(path_original)[1]
        ext  == splitext(path_original)[2]
    IN  root \o <<"_">> \o Digits(logfile_number) \o ext

\* ------------------------------------------------------------------------
\* The world an operation runs in: a record of
\*   self        the attributes of every writer object
\*   sys_stdout, sys_stderr   the process-wide streams
\*   files       every file object ever opened (a handle is its index)
\*   disk        path -> bytes stored in the file at that path
\*   dirs        the directories that exist
\*   console     text received by the two original console streams
\*   failing     the directories whose storage device rejects every request
\* An operation returns [W |-> the world it leaves, ok |-> returned
\* normally, err |-> the exception raised otherwise].
\* ------------------------------------------------------------------------
Ok(W) == [W |-> W, ok |-> TRUE, err |-> "none"]
Raise(W, e) == [W |-> W, ok |-> FALSE, err |-> e]

\* the bytes of a file after writing data at byte offset pos
WriteAt(content, pos, data) ==
    LET padded == IF Len(content) < pos
                  THEN content \o Repeat("00", pos - Len(content))
                  ELSE content
    IN  SubSeq(padded, 1, pos) \o data
            \o SubSeq(padded, pos + Len(data) + 1, Len(padded))

\* os.makedirs(d, exist_ok=True)
makedirs(W, d) ==
    IF d = <<>> THEN Raise(W, "FileNotFoundError")
    ELSE IF d \in W.dirs THEN Ok(W)
    ELSE IF d \in W.failing THEN Raise(W, "OSError")
    ELSE Ok([W EXCEPT !.dirs = @ \cup {d}])

\* open(path, "a"): the file keeps what it held
MutFileOpenAppend(W, path) ==
    IF dirname(path) \in W.failing THEN Raise(W, "OSError")
    ELSE IF dirname(path) # <<>> /\ dirname(path) \notin W.dirs
         THEN Raise(W, "FileNotFoundError")
    ELSE LET old == IF path \in DOMAIN W.disk THEN W.disk[path] ELSE <<>>
         IN  Ok([W EXCEPT
                 !.files = Append(@, [name |-> path, closed |-> FALSE,
                                      buf |-> <<>>, pos |-> Len(old)]),
                 !.disk = [p \in (DOMAIN @) \cup {path} |->
                              IF p = path THEN old ELSE @[p]]])

\* open(path, "w"): a new file object on the created or truncated file
FileOpen(W, path) ==
    IF dirname(path) \in W.failing THEN Raise(W, "OSError")
    ELSE IF dirname(path) # <<>> /\ dirname(path) \notin W.dirs
         THEN Raise(W, "FileNotFoundError")
    ELSE Ok([W EXCEPT
             !.files = Append(@, [name |-> path, closed |-> FALSE,
                                  buf |-> <<>>, pos |-> 0]),
             !.disk = [p \in (DOMAIN @) \cup {path} |->
                          IF p = path THEN <<>> ELSE @[p]]])

\* f.flush(): the buffered bytes go to the file at the handle's offset
FileFlush(W, h) ==
    LET f == W.files[h]
    IN  IF f.closed THEN Raise(W, "ValueError")
        ELSE IF f.buf = <<>> THEN Ok(W)
        ELSE IF dirname(f.name) \in W.failing THEN Raise(W, "OSError")
        ELSE Ok([W EXCEPT
                 !.disk[f.name] = WriteAt(@, f.pos, f.buf),
                 !.files[h].pos = @ + Len(f.buf),
                 !.files[h].buf = <<>>])

\* f.write(text): encode and buffer; the platform flushes by itself once
\* the buffer holds FlushBytes bytes
FileWrite(W, h, text) ==
    LET f == W.files[h]
        W1 == [W EXCEPT !.files[h].buf = @ \o Encode(text)]
    IN  IF f.closed THEN Raise(W, "ValueError")
        ELSE IF Len(W1.files[h].buf) >= FlushBytes THEN FileFlush(W1, h)
        ELSE Ok(W1)

\* f.close() that refuses a file already closed
MutFileCloseTwiceFails(W, h) ==
    LET f == W.files[h]
        r == FileFlush(W, h)
        W1 == [r.W EXCEPT !.files[h].closed = TRUE]
    IN  IF f.closed THEN Raise(W, "ValueError")
        ELSE IF r.ok THEN Ok(W1)
        ELSE Raise(W1, r.err)

\* f.close() that releases the handle without flushing
MutFileCloseDropsBuffer(W, h) ==
    Ok([W EXCEPT !.files[h].closed = TRUE, !.files[h].buf = <<>>])

\* f.close(): flush, then release the handle whether or not the flush
\* succeeded; closing a closed file does nothing
FileClose(W, h) ==
    LET f == W.files[h]
        r == FileFlush(W, h)
        W1 == [r.W EXCEPT !.files[h].closed = TRUE]
    IN  IF f.closed THEN Ok(W)
        ELSE IF r.ok THEN Ok(W1)
        ELSE Raise(W1, r.err)

\* f.tell() of a text file flushes and returns the byte offset
FileTell(W, h) ==
    LET r == FileFlush(W, h)
    IN  IF r.ok THEN Ok(r.W) @@ [val |-> r.W.files[h].pos]
        ELSE r @@ [val |-> 0]

\* ------------------------------------------------------------------------
\* The writer objects
\* ------------------------------------------------------------------------
Consoles == {"console_out", "console_err"}      \* the original streams
Writers == {"t1", "r1"}                          \* a Tee and a TeeToRAM
KindOf(w) == IF w = "r1" THEN "TeeToRAM" ELSE "Tee"

\* "Opened new log file at: "
OpenedMsg ==
    <<"O", "p", "e", "n", "e", "d", " ", "n", "e", "w", " ", "l", "o", "g",
      " ", "f", "i", "l", "e", " ", "a", "t", ":", " ">>

RECURSIVE StreamWrite(_, _, _, _)
RECURSIVE WriteSinks(_, _, _, _)

MutWriteSinksNoFailFast(W, w, i, obj) ==
    LET me == W.self[w]
        f == me.logfiles[i]
        r1 == FileWrite(W, f, obj)
        r2 == IF r1.ok /\ me.immediately_flush THEN FileFlush(r1.W, f)
              ELSE r1
        rest == WriteSinks(r2.W, w, i + 1, obj)
    IN  IF i > Len(me.logfiles) THEN Ok(W)
        ELSE IF f = None THEN Raise(W, "AttributeError")
        ELSE IF ~r2.ok /\ rest.ok THEN Raise(rest.W, r2.err)
        ELSE rest

\* the loop of Tee.write without the flush of immediately_flush
MutWriteSinksNeverFlushes(W, w, i, obj) ==
    LET me == W.self[w]
        f == me.logfiles[i]
        r1 == FileWrite(W, f, obj)
    IN  IF i > Len(me.logfiles) THEN Ok(W)
        ELSE IF f = None THEN Raise(W, "AttributeError")
        ELSE IF ~r1.ok THEN r1
        ELSE WriteSinks(r1.W, w, i + 1, obj)

\* the loop of Tee.write that rolls a sink over as soon as it is full
MutWriteSinksRotates(W, w, i, obj) ==
    LET me == W.self[w]
        f == me.logfiles[i]
        r1 == FileWrite(W, f, obj)
        r2 == IF me.immediately_flush THEN FileFlush(r1.W, f) ELSE r1
        full == r2.W.files[f].pos + Len(r2.W.files[f].buf)
                    >= me.max_logfile_size_bytes
        c == FileClose(r2.W, f)
        number == me.logfile_numbers[i] + 1
        o == FileOpen([c.W EXCEPT !.self[w].logfile_numbers[i] = number],
                      NumberedPath(me.PATHS[i], number))
        W3 == [o.W EXCEPT !.self[w].logfiles[i] = Len(o.W.files)]
    IN  IF i > Len(me.logfiles) THEN Ok(W)
        ELSE IF f = None THEN Raise(W, "AttributeError")
        ELSE IF ~r1.ok THEN r1
        ELSE IF ~r2.ok THEN r2
        ELSE IF ~full THEN WriteSinks(r2.W, w, i + 1, obj)
        ELSE IF ~c.ok THEN c
        ELSE IF ~o.ok THEN o
        ELSE WriteSinks(W3, w, i + 1, obj)

\* Tee.write, the loop over self.logfiles from its i-th element on
WriteSinks(W, w, i, obj) ==
    LET me == W.self[w]
        f == me.logfiles[i]
        r1 == FileWrite(W, f, obj)
        r2 == IF me.immediately_flush THEN FileFlush(r1.W, f) ELSE r1
    IN  IF i > Len(me.logfiles) THEN Ok(W)
        ELSE IF f = None THEN Raise(W, "AttributeError")
        ELSE IF ~r1.ok THEN r1
        ELSE IF ~r2.ok THEN r2
        ELSE WriteSinks(r2.W, w, i + 1, obj)

\* Tee.write
Tee_write(W, w, obj, depth) ==
    LET me == W.self[w]
        r == StreamWrite(W, me.stdout_bak, obj, depth - 1)
    IN  IF me.stdout_bak = UNSET THEN Raise(W, "AttributeError")
        ELSE IF ~r.ok THEN r
        ELSE IF ~me.has_logfiles THEN Raise(r.W, "AttributeError")
        ELSE WriteSinks(r.W, w, 1, obj)

\* TeeToRAM.write
TeeToRAM_write(W, w, obj, depth) ==
    LET me == W.self[w]
        r == StreamWrite(W, me.stdout_bak, obj, depth - 1)
    IN  IF me.stdout_bak = UNSET THEN Raise(W, "AttributeError")
        ELSE IF ~r.ok THEN r
        ELSE IF ~me.has_string_buffer THEN Raise(r.W, "AttributeError")
        ELSE Ok([r.W EXCEPT !.self[w].string_buffer = @ \o obj])

\* s.write(obj) for whatever object s is.  A writer whose stdout_bak chain
\* leads back to a writer recurses until Python raises RecursionError; no
\* frame has then got past its first statement.
StreamWrite(W, s, obj, depth) ==
    IF s \in Consoles THEN Ok([W EXCEPT !.console[s] = @ \o obj])
    ELSE IF depth = 0 THEN Raise(W, "RecursionError")
    ELSE IF W.self[s].kind = "TeeToRAM"
         THEN TeeToRAM_write(W, s, obj, depth)
    ELSE Tee_write(W, s, obj, depth)

MaxDepth == Cardinality(Writers)

\* print that leaves out the line end
MutPrintNoLineEnd(W, text) == StreamWrite(W, W.sys_stdout, text, MaxDepth)

\* print(text): the text, then the line end, to sys.stdout
print(W, text) ==
    LET r == StreamWrite(W, W.sys_stdout, text, MaxDepth)
    IN  IF ~r.ok THEN r
        ELSE StreamWrite(r.W, r.W.sys_stdout, <<"\n">>, MaxDepth)

\* Tee.get_logfile_names, the list comprehension up to the n-th log file
RECURSIVE NamesUpTo(_, _, _)
NamesUpTo(W, w, n) ==
    IF n = 0 THEN <<>>
    ELSE Append(NamesUpTo(W, w, n - 1), W.files[W.self[w].logfiles[n]].name)

\* Tee.get_logfile_names
get_logfile_names(W, w) == NamesUpTo(W, w, Len(W.self[w].logfiles))

STARTING_LOGNUMBER == 1

\* Tee.begin, the loop that opens the files, from the i-th path on
RECURSIVE BeginLoop(_, _, _)
BeginLoop(W, w, i) ==
    LET me == W.self[w]
        path == IF me.append_lognum
                THEN NumberedPath(me.PATHS[i], STARTING_LOGNUMBER)
                ELSE me.PATHS[i]
        W1 == IF me.append_lognum
              THEN [W EXCEPT !.self[w].logfile_numbers[i] = STARTING_LOGNUMBER]
              ELSE W
        m == makedirs(W1, dirname(path))
        o == FileOpen(m.W, path)
        W2 == [o.W EXCEPT !.self[w].logfiles[i] = Len(o.W.files)]
    IN  IF i > Len(me.PATHS) THEN Ok(W)
        ELSE IF ~m.ok THEN m
        ELSE IF ~o.ok THEN o
        ELSE BeginLoop(W2, w, i + 1)

\* the redirection of begin() that takes sys.stderr whatever the option says
MutRedirectAlways(W, w) ==
    [W EXCEPT !.self[w].stdout_bak = W.sys_stdout, !.sys_stdout = w,
              !.self[w].stderr_bak = W.sys_stderr, !.sys_stderr = w]

\* the statements of begin() that save and replace sys.stdout / sys.stderr
Redirect(W, w) ==
    LET W1 == [W EXCEPT !.self[w].stdout_bak = W.sys_stdout,
                        !.sys_stdout = w]
    IN  IF W.self[w].redirect_stderr
        THEN [W1 EXCEPT !.self[w].stderr_bak = W.sys_stderr,
                        !.sys_stderr = w]
        ELSE W1

\* CPython finalises a file object when its last reference goes: it is
\* closed, and an error of that close is not raised
RECURSIVE Finalise(_, _, _)
Finalise(W, handles, i) ==
    IF i > Len(handles) THEN W
    ELSE IF handles[i] = None THEN Finalise(W, handles, i + 1)
    ELSE Finalise(FileClose(W, handles[i]).W, handles, i + 1)

\* Tee.begin that keeps the rotation indexes of the session before
MutTeeBeginKeepsNumbers(W, w) ==
    LET n == Len(W.self[w].PATHS)
        Wg == Finalise(W, W.self[w].logfiles, 1)
        W0 == [Wg EXCEPT
               !.self[w].has_logfiles = TRUE,
               !.self[w].logfiles = Repeat(None, n),
               !.self[w].logfile_numbers =
                   IF W.self[w].has_logfiles THEN @
                   ELSE Repeat(STARTING_LOGNUMBER - 1, n)]
        r == BeginLoop(W0, w, 1)
    IN  IF ~r.ok THEN r ELSE Ok(Redirect(r.W, w))

\* Tee.begin
Tee_begin(W, w) ==
    LET n == Len(W.self[w].PATHS)
        Wg == Finalise(W, W.self[w].logfiles, 1)
        W0 == [Wg EXCEPT
               !.self[w].has_logfiles = TRUE,
               !.self[w].logfiles = Repeat(None, n),
               !.self[w].logfile_numbers = Repeat(STARTING_LOGNUMBER - 1, n)]
        r == BeginLoop(W0, w, 1)
    IN  IF ~r.ok THEN r ELSE Ok(Redirect(r.W, w))

\* TeeToRAM.begin: the last statement looks the name io up in the module's
\* namespace after the streams have been replaced
TeeToRAM_begin(W, w) ==
    LET W1 == Redirect(W, w)
    IN  IF "io" \notin W.globals THEN Raise(W1, "NameError")
        ELSE Ok([W1 EXCEPT !.self[w].has_string_buffer = TRUE,
                           !.self[w].string_buffer = <<>>])

begin(W, w) ==
    IF W.self[w].kind = "TeeToRAM" THEN TeeToRAM_begin(W, w)
    ELSE Tee_begin(W, w)

RECURSIVE NextLoop(_, _, _)

\* NextLoop with the size test "larger than" instead of "at least"
MutNextLoopStrict(W, w, i) ==
    LET me == W.self[w]
        f == me.logfiles[i]
        t == FileTell(W, f)
        c == FileClose(t.W, f)
        number == me.logfile_numbers[i] + 1
        W1 == [c.W EXCEPT !.self[w].logfile_numbers[i] = number]
        new_path == NumberedPath(me.PATHS[i], number)
        o == FileOpen(W1, new_path)
        W2 == [o.W EXCEPT !.self[w].logfiles[i] = Len(o.W.files)]
        p == print(W2, OpenedMsg \o new_path)
    IN  IF i > Len(me.logfiles) THEN Ok(W)
        ELSE IF f = None THEN Raise(W, "AttributeError")
        ELSE IF ~t.ok THEN Raise(t.W, t.err)
        ELSE IF t.val > me.max_logfile_size_bytes
             THEN IF ~c.ok THEN c
                  ELSE IF ~o.ok THEN o
                  ELSE IF ~p.ok THEN p
                  ELSE NextLoop(p.W, w, i + 1)
        ELSE NextLoop(t.W, w, i + 1)

\* Tee.next_logfiles, the loop from the i-th log file on
NextLoop(W, w, i) ==
    LET me == W.self[w]
        f == me.logfiles[i]
        t == FileTell(W, f)
        c == FileClose(t.W, f)
        number == me.logfile_numbers[i] + 1
        W1 == [c.W EXCEPT !.self[w].logfile_numbers[i] = number]
        new_path == NumberedPath(me.PATHS[i], number)
        o == FileOpen(W1, new_path)
        W2 == [o.W EXCEPT !.self[w].logfiles[i] = Len(o.W.files)]
        p == print(W2, OpenedMsg \o new_path)
    IN  IF i > Len(me.logfiles) THEN Ok(W)
        ELSE IF f = None THEN Raise(W, "AttributeError")
        ELSE IF ~t.ok THEN Raise(t.W, t.err)
        ELSE IF t.val >= me.max_logfile_size_bytes
             THEN IF ~c.ok THEN c
                  ELSE IF ~o.ok THEN o
                  ELSE IF ~p.ok THEN p
                  ELSE NextLoop(p.W, w, i + 1)
        ELSE NextLoop(t.W, w, i + 1)

\* Tee.next_logfiles (TeeToRAM inherits it)
next_logfiles(W, w) ==
    IF ~W.self[w].has_logfiles THEN Raise(W, "AttributeError")
    ELSE NextLoop(W, w, 1)

\* the statements of end() that restore sys.stdout / sys.stderr
Restore(W, w) ==
    LET me == W.self[w]
        W1 == [W EXCEPT !.sys_stdout = me.stdout_bak]
    IN  IF me.stdout_bak = UNSET THEN Raise(W, "AttributeError")
        ELSE IF ~me.redirect_stderr THEN Ok(W1)
        ELSE IF me.stderr_bak = UNSET THEN Raise(W1, "AttributeError")
        ELSE Ok([W1 EXCEPT !.sys_stderr = me.stderr_bak])

\* Tee.end, the loop that closes the files
RECURSIVE EndLoop(_, _, _)
EndLoop(W, w, i) ==
    LET f == W.self[w].logfiles[i]
        c == FileClose(W, f)
    IN  IF i > Len(W.self[w].logfiles) THEN Ok(W)
        ELSE IF f = None THEN Raise(W, "AttributeError")
        ELSE IF ~c.ok THEN c
        ELSE EndLoop(c.W, w, i + 1)

\* Tee.end
Tee_end(W, w) ==
    LET r == EndLoop(W, w, 1)
    IN  IF ~W.self[w].has_logfiles THEN Raise(W, "AttributeError")
        ELSE IF ~r.ok THEN r
        ELSE Restore(r.W, w)

\* TeeToRAM.end
TeeToRAM_end(W, w) == Restore(W, w)

end(W, w) ==
    IF W.self[w].kind = "TeeToRAM" THEN TeeToRAM_end(W, w)
    ELSE Tee_end(W, w)

\* Tee.flush (TeeToRAM inherits it)
RECURSIVE FlushLoop(_, _, _)
FlushLoop(W, w, i) ==
    LET f == W.self[w].logfiles[i]
        r == FileFlush(W, f)
    IN  IF i > Len(W.self[w].logfiles) THEN Ok(W)
        ELSE IF f = None THEN Raise(W, "AttributeError")
        ELSE IF ~r.ok THEN r
        ELSE FlushLoop(r.W, w, i + 1)

flush(W, w) ==
    IF ~W.self[w].has_logfiles THEN Raise(W, "AttributeError")
    ELSE FlushLoop(W, w, 1)

\* TeeToRAM.get_ram_buffer
get_ram_buffer(W, w) ==
    IF ~W.self[w].has_string_buffer
    THEN Raise(W, "AttributeError") @@ [val |-> <<>>]
    ELSE Ok(W) @@ [val |-> W.self[w].string_buffer]

WroteMsg ==
    <<"W", "r", "o", "t", "e", " ", "l", "o", "g", " ", "f", "i", "l", "e",
      ":", " ">>

Min(a, b) == IF a < b THEN a ELSE b

\* a slice that leaves out its last byte
MutChunkShort(ram_buffer_bytes, start_index, end_index) ==
    SubSeq(ram_buffer_bytes, start_index + 1, end_index - 1)

\* ram_buffer_bytes[start_index:end_index]
Chunk(ram_buffer_bytes, start_index, end_index) ==
    SubSeq(ram_buffer_bytes, start_index + 1, end_index)

\* f.write(chunk) on a file opened in binary mode
FileWriteBytes(W, h, data) ==
    LET f == W.files[h]
        W1 == [W EXCEPT !.files[h].buf = @ \o data]
    IN  IF f.closed THEN Raise(W, "ValueError")
        ELSE IF Len(W1.files[h].buf) >= FlushBytes THEN FileFlush(W1, h)
        ELSE Ok(W1)

\* with open(path_to_use, "wb") as f: f.write(chunk)
WriteChunkFile(W, path_to_use, chunk) ==
    LET o == FileOpen(W, path_to_use)
        h == Len(o.W.files)
        r == FileWriteBytes(o.W, h, chunk)
        c == FileClose(r.W, h)
    IN  IF ~o.ok THEN o
        ELSE IF ~r.ok THEN Raise(c.W, r.err)
        ELSE c

\* the one element of a one-element set
Only(S) == CHOOSE x \in S : TRUE

\* TeeToRAM.write_ram_to_logfiles, one pass through the body of the while
\* loop; the result carries the new start_index and log_number
RamBody(W, w, path, ram_buffer_bytes, start_index, log_number) ==
    LET me == W.self[w]
        total_size_bytes == Len(ram_buffer_bytes)
        end_index == Min(start_index + me.max_logfile_size_bytes,
                         total_size_bytes)
        chunk == Chunk(ram_buffer_bytes, start_index, end_index)
        path_to_use == IF me.append_lognum
                       THEN NumberedPath(path, log_number)
                       ELSE path
        m == makedirs(W, dirname(path_to_use))
        f == WriteChunkFile(m.W, path_to_use, chunk)
        p == print(f.W, WroteMsg \o path_to_use)
        r == IF ~m.ok THEN m ELSE IF ~f.ok THEN f ELSE p
    IN  [W |-> r.W, ok |-> r.ok, err |-> r.err,
         start_index |-> end_index, log_number |-> log_number + 1]

\* TeeToRAM.write_ram_to_logfiles, the while loop for one path; the result
\* carries the values start_index and log_number have when the loop ends.
\* With a size limit that is not positive the loop never ends.
RECURSIVE RamWhile(_, _, _, _, _, _)
RamWhile(W, w, path, ram_buffer_bytes, start_index, log_number) ==
    IF ~(start_index < Len(ram_buffer_bytes))
    THEN [W |-> W, ok |-> TRUE, err |-> "none",
          start_index |-> start_index, log_number |-> log_number]
    ELSE IF W.self[w].max_logfile_size_bytes <= 0
    THEN [W |-> W, ok |-> FALSE, err |-> "<no return>",
          start_index |-> start_index, log_number |-> log_number]
    ELSE Only({ IF ~r.ok THEN r
                ELSE RamWhile(r.W, w, path, ram_buffer_bytes, r.start_index,
                              r.log_number) :
                r \in {RamBody(W, w, path, ram_buffer_bytes, start_index,
                               log_number)} })

\* TeeToRAM.write_ram_to_logfiles, the for loop from the i-th path on
RECURSIVE RamFor(_, _, _, _, _, _, _)
RamFor(W, w, paths, i, ram_buffer_bytes, start_index, log_number) ==
    IF i > Len(paths) THEN Ok(W)
    ELSE Only({ IF ~r.ok THEN Raise(r.W, r.err)
                ELSE RamFor(r.W, w, paths, i + 1, ram_buffer_bytes,
                            r.start_index, r.log_number) :
                r \in {RamWhile(W, w, paths[i], ram_buffer_bytes,
                                start_index, log_number)} })

\* TeeToRAM.write_ram_to_logfiles
write_ram_to_logfiles(W, w, paths) ==
    LET ram_buffer == get_ram_buffer(W, w)
    IN  IF ~ram_buffer.ok THEN Raise(W, ram_buffer.err)
        ELSE RamFor(W, w, paths, 1, Encode(ram_buffer.val), 0, 1)

\* ------------------------------------------------------------------------
\* Inputs
\* ------------------------------------------------------------------------
Hello == <<"h", "e", "l", "l", "o", " ">>
\* "This will be printed to the console and writt\u00e9n."
Line ==
    <<"T", "h", "i", "s", " ", "w", "i", "l", "l", " ", "b", "e", " ",
      "p", "r", "i", "n", "t", "e", "d", " ", "t", "o", " ", "t", "h", "e",
      " ", "c", "o", "n", "s", "o", "l", "e", " ", "a", "n", "d", " ",
      "w", "r", "i", "t", "t", "U+00E9", "n", ".">>
Payloads == {Hello, Line}           \* what the application prints
Oops == <<"O", "o", "p", "s">>
ErrPayloads == {Oops}               \* what it writes to the error stream

OutLog == <<"d", "/", "o", "u", "t", ".", "l", "o", "g">>      \* d/out.log
ErrLog == <<"e", "/", "e", "r", "r">>                          \* e/err
BareLog == <<"o", "u", "t", ".", "l", "o", "g">>               \* out.log
Devices == {<<"d">>, <<"e">>}       \* directories on devices that can fail

\* The runs explored: which writer objects the application constructs and
\* with which constructor arguments (both writers get the same options).
Run(cast, paths, num, imm, err, max) ==
    [cast |-> cast, paths |-> paths, append_lognum |-> num,
     immediately_flush |-> imm, redirect_stderr |-> err,
     max_logfile_size_bytes |-> max]
Runs ==
    { Run({"t1"}, <<OutLog>>, TRUE, FALSE, TRUE, 10),
      Run({"t1"}, <<OutLog, ErrLog>>, TRUE, FALSE, TRUE, 40),
      Run({"t1"}, <<OutLog, ErrLog>>, FALSE, TRUE, FALSE, 12),
      Run({"t1"}, <<OutLog, BareLog>>, TRUE, FALSE, FALSE, 12),
      Run({"t1", "r1"}, <<OutLog>>, TRUE, FALSE, TRUE, 12),
      Run({"t1", "r1"}, <<OutLog, ErrLog>>, FALSE, TRUE, FALSE, 40) }

\* ------------------------------------------------------------------------
\* State
\* ------------------------------------------------------------------------
VARIABLES
    self, sys_stdout, sys_stderr, files, disk, dirs, console, failing,
    globals,    \* the names bound in the namespace of the module
    last,       \* the call made last: [op, w, arg, ok, err]
    ret,        \* what the last _get_numbered_path() call returned
    hist,       \* per writer, what is remembered of its session
    count       \* calls made so far, by kind

vars == <<self, sys_stdout, sys_stderr, files, disk, dirs, console,
          failing, globals, last, ret, hist, count>>

TheWorld ==
    [self |-> self, sys_stdout |-> sys_stdout, sys_stderr |-> sys_stderr,
     files |-> files, disk |-> disk, dirs |-> dirs, console |-> console,
     failing |-> failing, globals |-> globals]

Becomes(W) ==
    /\ self' = W.self
    /\ sys_stdout' = W.sys_stdout
    /\ sys_stderr' = W.sys_stderr
    /\ files' = W.files
    /\ disk' = W.disk
    /\ dirs' = W.dirs
    /\ console' = W.console
    /\ failing' = W.failing
    /\ globals' = W.globals

\* Tee.__init__ / TeeToRAM.__init__
NewWriter(kind, paths, append_lognum, immediately_flush, redirect_stderr, max) ==
    [kind |-> kind, PATHS |-> paths, append_lognum |-> append_lognum,
     immediately_flush |-> immediately_flush,
     redirect_stderr |-> redirect_stderr,
     max_logfile_size_bytes |-> max,
     has_logfiles |-> FALSE, logfiles |-> <<>>, logfile_numbers |-> <<>>,
     stdout_bak |-> UNSET, stderr_bak |-> UNSET,
     has_string_buffer |-> FALSE, string_buffer |-> <<>>]

\* What is remembered of a writer's session:
\*   state     uninit, active (begin returned), failed (begin raised),
\*             ended (end returned)
\*   orig_out, orig_err   sys.stdout / sys.stderr just before begin()
\*   solo      no other writer has begun or ended since begin()
\*   clean     since begin() only write() and flush() of this writer were
\*             called, and none failed
\*   sent      the payloads of its write() calls since begin(), concatenated
\*   mark      how much text console_out held at begin()
\*   ends      the end() calls that have returned since begin()
\*   steady    since begin() only write(), flush() and next_logfiles() of
\*             this writer were called, and none failed
NoSession ==
    [state |-> "uninit", clean |-> FALSE, solo |-> FALSE, sent |-> <<>>,
     mark |-> 0, ends |-> 0, orig_out |-> UNSET, orig_err |-> UNSET,
     steady |-> FALSE]

\* TeeToRAM objects: numbering on or off, chunks of 8 or 40 bytes
RamRuns ==
    { Run({"r1"}, <<>>, TRUE, FALSE, TRUE, 8),
      Run({"r1"}, <<>>, FALSE, FALSE, FALSE, 8),
      Run({"r1"}, <<>>, TRUE, FALSE, FALSE, 40) }

\* the arguments of write_ram_to_logfiles
RamPaths == { <<OutLog>>, <<OutLog, ErrLog>> }

\* what the import statements of the module bind
ModuleGlobals == {"os", "sys", "colors"}

InitWith(runs, names) ==
    /\ \E run \in runs :
          self = [w \in run.cast |->
                    IF KindOf(w) = "Tee"
                    THEN NewWriter("Tee", run.paths, run.append_lognum,
                                   run.immediately_flush, run.redirect_stderr,
                                   run.max_logfile_size_bytes)
                    ELSE NewWriter("TeeToRAM", <<<<>>>>, run.append_lognum,
                                   FALSE, run.redirect_stderr,
                                   run.max_logfile_size_bytes)]
    /\ sys_stdout = "console_out"
    /\ sys_stderr = "console_err"
    /\ files = <<>>
    /\ disk = <<>>
    /\ dirs = {}
    /\ console = [c \in Consoles |-> <<>>]
    /\ failing = {}
    /\ globals = names
    /\ ret = <<>>
    /\ hist = [w \in DOMAIN self |-> NoSession]
    /\ count = [calls |-> 0, begin |-> 0, write |-> 0, check |-> 0,
                fault |-> 0, persist |-> 0]

\* no call was made yet
NoCall(op, arg) ==
    [op |-> op, w |-> "none", arg |-> arg, ok |-> TRUE, err |-> "none"]

Init == InitWith(Runs, ModuleGlobals) /\ last = NoCall("init", <<>>)

Cast == DOMAIN self

Called(op, w, arg, r) ==
    /\ last' = [op |-> op, w |-> w, arg |-> arg, ok |-> r.ok, err |-> r.err]
    /\ ret' = ret

\* a call that is no write(), flush() or next_logfiles() of the writer
Unsteady(s) == [s EXCEPT !.clean = FALSE, !.steady = FALSE]
Unclean(h) == [v \in DOMAIN h |-> Unsteady(h[v])]
\* a begin() or end() of another writer: the session is no longer alone
Disturbed(s) == [s EXCEPT !.clean = FALSE, !.solo = FALSE, !.steady = FALSE]

\* ------------------------------------------------------------------------
\* Actions: one per call the application can make, and the storage events
\* ------------------------------------------------------------------------
Begin(w) ==
    /\ count.calls < MaxCalls
    /\ count.begin < MaxBegins
    /\ LET r == begin(TheWorld, w)
       IN  /\ Becomes(r.W)
           /\ Called("begin", w, <<>>, r)
           /\ hist' = [v \in Cast |->
                  IF v = w
                  THEN [state |-> IF r.ok THEN "active" ELSE "failed",
                        clean |-> r.ok, solo |-> TRUE, sent |-> <<>>,
                        mark |-> Len(console["console_out"]), ends |-> 0,
                        orig_out |-> sys_stdout, orig_err |-> sys_stderr,
                        steady |-> r.ok]
                  ELSE Disturbed(hist[v])]
    /\ count' = [count EXCEPT !.calls = @ + 1, !.begin = @ + 1]

End(w) ==
    /\ count.calls < MaxCalls
    /\ LET r == end(TheWorld, w)
       IN  /\ Becomes(r.W)
           /\ Called("end", w, <<>>, r)
           /\ hist' = [v \in Cast |->
                  IF v = w
                  THEN [hist[w] EXCEPT
                        !.state = IF r.ok /\ @ # "uninit" THEN "ended" ELSE @,
                        !.clean = @ /\ r.ok,
                        !.steady = @ /\ r.ok,
                        !.ends = IF r.ok THEN @ + 1 ELSE @]
                  ELSE Disturbed(hist[v])]
    /\ count' = [count EXCEPT !.calls = @ + 1]

\* s.write(obj) on the stream object s
WriteTo(op, s, obj) ==
    /\ count.calls < MaxCalls
    /\ count.write < MaxWrites
    /\ LET r == StreamWrite(TheWorld, s, obj, MaxDepth)
       IN  /\ Becomes(r.W)
           /\ Called(op, s, obj, r)
           /\ hist' = [v \in Cast |->
                  IF v = s /\ r.ok THEN [hist[v] EXCEPT !.sent = @ \o obj]
                  ELSE Unsteady(hist[v])]
    /\ count' = [count EXCEPT !.calls = @ + 1, !.write = @ + 1]

\* w.write(obj), called on the writer object
Write(w, obj) == WriteTo("write", w, obj)

\* sys.stdout.write(obj), as print() does
StdoutWrite(obj) == WriteTo("write", sys_stdout, obj)

\* sys.stderr.write(obj)
StderrWrite(obj) == WriteTo("stderr.write", sys_stderr, obj)

NextLogfiles(w) ==
    /\ count.calls < MaxCalls
    /\ count.check < MaxChecks
    /\ LET r == next_logfiles(TheWorld, w)
       IN  /\ Becomes(r.W)
           /\ Called("next_logfiles", w, <<>>, r)
           /\ hist' = [v \in Cast |->
                  IF v = w /\ r.ok THEN [hist[v] EXCEPT !.clean = FALSE]
                  ELSE Unsteady(hist[v])]
    /\ count' = [count EXCEPT !.calls = @ + 1, !.check = @ + 1]

Flush(w) ==
    /\ count.calls < MaxCalls
    /\ LET r == flush(TheWorld, w)
       IN  /\ Becomes(r.W)
           /\ Called("flush", w, <<>>, r)
           /\ hist' = [v \in Cast |->
                  IF v = w /\ r.ok THEN hist[v]
                  ELSE Unsteady(hist[v])]
    /\ count' = [count EXCEPT !.calls = @ + 1]

\* the device under directory d starts rejecting requests (full, removed,
\* read-only)
StorageFails(d) ==
    /\ count.calls < MaxCalls
    /\ count.fault < MaxFaults
    /\ d \notin failing
    /\ failing' = failing \cup {d}
    /\ count' = [count EXCEPT !.calls = @ + 1, !.fault = @ + 1]
    /\ last' = [op |-> "storage", w |-> "none", arg |-> d, ok |-> TRUE,
                err |-> "none"]
    /\ UNCHANGED <<self, sys_stdout, sys_stderr, files, disk, dirs, console,
                   globals, ret, hist>>

StorageRecovers(d) ==
    /\ count.calls < MaxCalls
    /\ d \in failing
    /\ failing' = failing \ {d}
    /\ count' = [count EXCEPT !.calls = @ + 1]
    /\ last' = [op |-> "storage", w |-> "none", arg |-> d, ok |-> TRUE,
                err |-> "none"]
    /\ UNCHANGED <<self, sys_stdout, sys_stderr, files, disk, dirs, console,
                   globals, ret, hist>>

WriteRamToLogfiles(w, paths) ==
    /\ count.calls < MaxCalls
    /\ count.persist < MaxPersists
    /\ self[w].kind = "TeeToRAM"
    /\ LET r == write_ram_to_logfiles(TheWorld, w, paths)
       IN  /\ Becomes(r.W)
           /\ Called("write_ram_to_logfiles", w, paths, r)
           /\ hist' = Unclean(hist)
    /\ count' = [count EXCEPT !.calls = @ + 1, !.persist = @ + 1]

Next ==
    \/ \E w \in Cast : Begin(w)
    \/ \E w \in Cast : End(w)
    \/ \E w \in Cast, obj \in Payloads : Write(w, obj)
    \/ \E obj \in Payloads : StdoutWrite(obj)
    \/ \E obj \in ErrPayloads : StderrWrite(obj)
    \/ \E w \in Cast : NextLogfiles(w)
    \/ \E w \in Cast : Flush(w)
    \/ \E d \in Devices : StorageFails(d)
    \/ \E d \in Devices : StorageRecovers(d)

Spec == Init /\ [][Next]_vars

\* ------------------------------------------------------------------------
\* _get_numbered_path on its own: any base path over a letter, the dot and
\* the separator, any index from 1
\* ------------------------------------------------------------------------
PathChars == {"a", ".", "/"}

BasePaths == UNION {[1..n -> PathChars] : n \in 0..MaxPathLen}

\* w._get_numbered_path(path_original, logfile_number): reads and assigns
\* no attribute and no global
GetNumberedPath(w, path_original, logfile_number) ==
    /\ count.calls < MaxCalls
    /\ ret' = NumberedPath(path_original, logfile_number)
    /\ last' = [op |-> "_get_numbered_path", w |-> w,
                arg |-> <<path_original, logfile_number>>, ok |-> TRUE,
                err |-> "none"]
    /\ count' = [count EXCEPT !.calls = @ + 1]
    /\ UNCHANGED <<self, sys_stdout, sys_stderr, files, disk, dirs, console,
                   failing, globals, hist>>

\* the program has picked a base path and an index
InitPath ==
    /\ InitWith({Run({"t1"}, <<OutLog>>, TRUE, FALSE, TRUE, 10)},
                ModuleGlobals)
    /\ \E path_original \in BasePaths, logfile_number \in 1..MaxIndex :
          last = NoCall("input", <<path_original, logfile_number>>)

\* the call with the picked arguments, any number of times
NextPath ==
    \E w \in Cast : GetNumberedPath(w, last.arg[1], last.arg[2])

SpecPath == InitPath /\ [][NextPath]_vars

\* A TeeToRAM object in a program that has bound io in the namespace of the
\* module, so that begin() can create the buffer.
InitRam ==
    /\ InitWith(RamRuns, ModuleGlobals \cup {"io"})
    /\ last = NoCall("init", <<>>)

NextRam ==
    \/ \E w \in Cast : Begin(w)
    \/ \E w \in Cast : End(w)
    \/ \E w \in Cast, obj \in Payloads : Write(w, obj)
    \/ \E obj \in Payloads : StdoutWrite(obj)
    \/ \E obj \in ErrPayloads : StderrWrite(obj)
    \/ \E w \in Cast : NextLogfiles(w)
    \/ \E w \in Cast : Flush(w)
    \/ \E d \in Devices : StorageFails(d)
    \/ \E d \in Devices : StorageRecovers(d)
    \/ \E w \in Cast, paths \in RamPaths : WriteRamToLogfiles(w, paths)

SpecRam == InitRam /\ [][NextRam]_vars

\* ------------------------------------------------------------------------
\* Observations used by the properties
\* ------------------------------------------------------------------------
\* the bytes the file of handle h holds once its buffer is flushed
SinkBytes(W, h) == W.disk[W.files[h].name] \o W.files[h].buf
\* the bytes written through handle h since it was opened
SinkSize(W, h) == W.files[h].pos + Len(W.files[h].buf)

Tees == {w \in Cast : self[w].kind = "Tee"}
IsCall(op, w) == last'.op = op /\ last'.w = w

\* ------------------------------------------------------------------------
\* Properties
\* ------------------------------------------------------------------------

RECURSIVE RotationLines(_, _, _, _)
RotationLines(numbersBefore, numbersAfter, namesAfter, n) ==
    IF n = 0 THEN <<>>
    ELSE RotationLines(numbersBefore, numbersAfter, namesAfter, n - 1)
         \o (IF numbersBefore[n] # numbersAfter[n]
             THEN Encode(OpenedMsg \o namesAfter[n] \o <<"\n">>)
             ELSE <<>>)

\* sink i of w is the same open file, at the same path and index, as before
SameSink(w, i) ==
    LET h == self[w].logfiles[i]
    IN  /\ self'[w].logfiles[i] = h
        /\ files'[h].name = files[h].name
        /\ ~files'[h].closed
        /\ self'[w].logfile_numbers[i] = self[w].logfile_numbers[i]

C3_OnlyCheckRotates ==
    [][last'.op \in {"write", "stderr.write", "flush"} =>
         /\ \A w \in Cast :
               /\ self'[w].logfiles = self[w].logfiles
               /\ self'[w].logfile_numbers = self[w].logfile_numbers
         /\ Len(files') = Len(files)
         /\ \A h \in 1..Len(files) :
               /\ files'[h].closed = files[h].closed
               /\ files'[h].name = files[h].name
      ]_vars

\* a write has taken a sink past twice its threshold and the sink is still
\* the first file
C3_Witness ==
    /\ last.op = "write" /\ last.ok /\ last.w = "t1"
    /\ hist["t1"].state = "active"
    /\ SinkSize(TheWorld, self["t1"].logfiles[1])
           > 2 * self["t1"].max_logfile_size_bytes
    /\ ~files[self["t1"].logfiles[1]].closed
    /\ get_logfile_names(TheWorld, "t1")[1] = NumberedPath(OutLog, 1)

\* C4: while only write() and flush() calls were made on a Tee session and
\* none failed, the console has received exactly the concatenation of the
\* payloads, and so has every destination's log file: what the file holds
\* with its buffer is that concatenation, and after flush() or end() the
\* file on disk, read back, is that concatenation.
C4_OutputsEqualPayloads ==
    \A w \in Tees :
       (hist[w].clean /\ hist[w].state \in {"active", "ended"}) =>
          /\ SubSeq(console["console_out"], hist[w].mark + 1,
                    Len(console["console_out"])) = hist[w].sent
          /\ \A i \in 1..Len(self[w].logfiles) :
                LET h == self[w].logfiles[i]
                IN  /\ Decode(SinkBytes(TheWorld, h)) = hist[w].sent
                    /\ (last.op \in {"flush", "end"} /\ last.w = w) =>
                          /\ files[h].buf = <<>>
                          /\ Decode(disk[files[h].name]) = hist[w].sent

\* two payloads were written to a session with two destinations, which was
\* then ended
C4_Witness ==
    /\ last.op = "end" /\ last.ok /\ last.w = "t1"
    /\ hist["t1"].clean
    /\ hist["t1"].sent = Hello \o Line
    /\ Len(self["t1"].logfiles) = 2

\* C5: the end() call that follows begin() and any write(), next_logfiles()
\* and flush() calls, failed ones included, puts back the streams that were
\* installed just before begin(): sys.stdout, and sys.stderr when
\* redirect_stderr is true.
C5_EndRestoresStreams ==
    [][\A w \in Cast :
         (IsCall("end", w) /\ hist[w].state = "active" /\ hist[w].solo
            /\ hist[w].ends = 0) =>
            /\ sys_stdout' = hist[w].orig_out
            /\ self[w].redirect_stderr => sys_stderr' = hist[w].orig_err
      ]_vars

\* C6: end() on a session that has ended returns without an error, reports
\* no error of a second close, and leaves sys.stdout, sys.stderr and every
\* file as the first end() left them.
C6_EndTwice ==
    [][\A w \in Cast :
         (IsCall("end", w) /\ hist[w].state = "ended" /\ hist[w].solo) =>
            /\ last'.ok
            /\ sys_stdout' = sys_stdout /\ sys_stdout' = hist[w].orig_out
            /\ sys_stderr' = sys_stderr
            /\ self[w].redirect_stderr => sys_stderr' = hist[w].orig_err
            /\ files' = files
            /\ disk' = disk
      ]_vars

\* a session that wrote one payload has been ended twice
C6_Witness ==
    /\ last.op = "end" /\ last.ok /\ last.w = "t1"
    /\ hist["t1"].state = "ended" /\ hist["t1"].ends = 2
    /\ hist["t1"].sent = Hello
    /\ sys_stdout = "console_out" /\ sys_stderr = "console_err"
    /\ \A i \in 1..Len(self["t1"].logfiles) :
          /\ files[self["t1"].logfiles[i]].closed
          /\ Decode(disk[files[self["t1"].logfiles[i]].name]) = Hello

\* every sink of w holds after the step what it held before, and then text
SinksGain(w, text) ==
    \A i \in 1..Len(self[w].logfiles) :
       LET h == self[w].logfiles[i]
       IN  SinkBytes(TheWorld', h) = SinkBytes(TheWorld, h) \o Encode(text)

\* C7: with redirect_stderr false, begin() and end() leave sys.stderr as it
\* is, and what is written through sys.stderr during a session goes to the
\* console's error stream only: no file and no sink changes and the captured
\* stdout receives nothing.  With redirect_stderr true, a write through
\* sys.stderr during a session that returns has delivered the text to the
\* captured original stdout and to every sink.
C7_StderrFollowsOption ==
    [][\A w \in Cast :
         /\ (last'.op \in {"begin", "end"} /\ last'.w = w
               /\ ~self[w].redirect_stderr)
            => sys_stderr' = sys_stderr
         /\ (last'.op = "stderr.write" /\ hist[w].state = "active"
               /\ ~self[w].redirect_stderr)
            => /\ last'.ok
               /\ files' = files /\ disk' = disk
               /\ console'["console_out"] = console["console_out"]
               /\ console'["console_err"] = console["console_err"] \o last'.arg
         /\ (last'.op = "stderr.write" /\ hist[w].state = "active"
               /\ hist[w].solo /\ self[w].redirect_stderr /\ last'.ok)
            => /\ last'.w = w
               /\ self[w].stdout_bak = "console_out"
               /\ console'["console_out"] = console["console_out"] \o last'.arg
               /\ console'["console_err"] = console["console_err"]
               /\ SinksGain(w, last'.arg)
      ]_vars

\* during a session with redirect_stderr false and two destinations, text
\* written through sys.stderr after a payload reached the console's error
\* stream and nothing else
C7_Witness ==
    /\ last.op = "stderr.write" /\ last.ok /\ last.w = "console_err"
    /\ hist["t1"].state = "active" /\ ~self["t1"].redirect_stderr
    /\ sys_stdout = "t1" /\ sys_stderr = "console_err"
    /\ console["console_err"] = Oops
    /\ console["console_out"] = Hello
    /\ Len(self["t1"].logfiles) = 2
    /\ \A i \in 1..2 :
          Decode(SinkBytes(TheWorld, self["t1"].logfiles[i])) = Hello

\* during a session with redirect_stderr true, text written through
\* sys.stderr after a payload is on the console's stdout and in both sinks
C7_RedirectedCase ==
    /\ last.op = "stderr.write" /\ last.ok /\ last.w = "t1"
    /\ hist["t1"].state = "active" /\ self["t1"].redirect_stderr
    /\ console["console_err"] = <<>>
    /\ console["console_out"] = Hello \o Oops
    /\ Len(self["t1"].logfiles) = 2
    /\ \A i \in 1..2 :
          Decode(SinkBytes(TheWorld, self["t1"].logfiles[i])) = Hello \o Oops

\* C8: at most one writer session is active at a time, and while a session
\* is active sys.stdout (and sys.stderr, when redirected) is that session's
\* writer and the stream it captured for pass-through is the original
\* console stream, never a writer.
C8_OneSessionPerStream ==
    /\ \A w \in Cast :
          hist[w].state = "active" =>
             /\ sys_stdout = w
             /\ self[w].stdout_bak \in Consoles
             /\ self[w].redirect_stderr =>
                   (sys_stderr = w /\ self[w].stderr_bak \in Consoles)
    /\ \A w1, w2 \in Cast :
          (hist[w1].state = "active" /\ hist[w2].state = "active") => w1 = w2

\* C9: a begin() call that raises has closed every file it opened, and
\* sys.stdout and sys.stderr are the streams installed before the call.
C9_FailedBeginLeavesNothing ==
    [][\A w \in Cast :
         (IsCall("begin", w) /\ ~last'.ok) =>
            /\ \A h \in (Len(files) + 1)..Len(files') : files'[h].closed
            /\ sys_stdout' = sys_stdout
            /\ sys_stderr' = sys_stderr
      ]_vars

\* C10: a write() of a session whose captured stream is the console, when a
\* sink fails, raises that sink's error only after the console received the
\* payload; sink k being the first that cannot take it, the sinks before k
\* hold the payload and the sinks after k are as they were.
C10_WriteFailsFast ==
    [][\A w \in Tees :
         (IsCall("write", w) /\ ~last'.ok /\ hist[w].state = "active"
            /\ self[w].stdout_bak \in Consoles) =>
            LET bak == self[w].stdout_bak
                n == Len(self[w].logfiles)
                Broken(h) == \/ files[h].closed
                             \/ dirname(files[h].name) \in failing
            IN  /\ last'.err \in {"OSError", "ValueError"}
                /\ console'[bak] = console[bak] \o last'.arg
                /\ \E k \in 1..n :
                      /\ Broken(self[w].logfiles[k])
                      /\ \A j \in 1..(k - 1) :
                            LET h == self[w].logfiles[j]
                            IN  SinkBytes(TheWorld', h)
                                  = SinkBytes(TheWorld, h) \o Encode(last'.arg)
                      /\ \A j \in (k + 1)..n :
                            LET h == self[w].logfiles[j]
                            IN  /\ files'[h] = files[h]
                                /\ disk'[files[h].name] = disk[files[h].name]
                /\ self' = self /\ sys_stdout' = sys_stdout
      ]_vars

\* the device of the first of two destinations fails: write() raised
\* OSError, the console has the payload and the second sink is empty
C10_Witness ==
    /\ last.op = "write" /\ ~last.ok /\ last.err = "OSError" /\ last.w = "t1"
    /\ hist["t1"].state = "active" /\ self["t1"].stdout_bak = "console_out"
    /\ Len(self["t1"].logfiles) = 2
    /\ failing = {<<"d">>}
    /\ console["console_out"] = last.arg
    /\ SinkBytes(TheWorld, self["t1"].logfiles[2]) = <<>>

\* the device of the second destination fails: the first sink keeps the
\* payload of the failed write()
C10_SecondSinkCase ==
    /\ last.op = "write" /\ ~last.ok /\ last.err = "OSError" /\ last.w = "t1"
    /\ hist["t1"].state = "active" /\ self["t1"].stdout_bak = "console_out"
    /\ Len(self["t1"].logfiles) = 2
    /\ failing = {<<"e">>}
    /\ console["console_out"] = last.arg
    /\ Decode(SinkBytes(TheWorld, self["t1"].logfiles[1])) = last.arg

\* ceil(T / k)
CeilDiv(T, k) == (T + k - 1) \div k

\* the j-th slice of k bytes of a byte sequence, the last one shorter
Slice(bytes, k, j) == SubSeq(bytes, (j - 1) * k + 1, Min(j * k, Len(bytes)))

\* C11: a write_ram_to_logfiles() call that returns, with
\* max_logfile_size_bytes = k > 0 and a buffer of T encoded bytes, has
\* written ceil(T / k) files for the first destination and no other file;
\* the j-th file written received bytes (j-1)k+1 .. min(jk, T) of the
\* buffer: k bytes each, the last between 1 and k, together the whole
\* buffer.  What was written is read from the numbered files; without
\* numbering the one file holds what was written last.
C11_ChunksAreSlices ==
    [][\A w \in Cast :
         (IsCall("write_ram_to_logfiles", w) /\ last'.ok) =>
            LET bytes == Encode(self[w].string_buffer)
                T == Len(bytes)
                k == self[w].max_logfile_size_bytes
                n == CeilDiv(T, k)
                base == Len(files)
                dest == last'.arg[1]
            IN  /\ k > 0
                /\ Len(files') = base + n
                /\ \A j \in 1..n :
                      LET f == files'[base + j]
                      IN  /\ f.closed /\ f.buf = <<>>
                          /\ f.pos = Len(Slice(bytes, k, j))
                          /\ f.pos = IF j < n THEN k ELSE T - (n - 1) * k
                          /\ f.pos >= 1 /\ f.pos <= k
                          /\ dirname(f.name) = dirname(dest)
                          /\ self[w].append_lognum =>
                                /\ f.name = NumberedPath(dest, j)
                                /\ disk'[f.name] = Slice(bytes, k, j)
                          /\ (~self[w].append_lognum /\ j = n) =>
                                disk'[f.name] = Slice(bytes, k, n)
      ]_vars

\* a buffer of 12 bytes was written in chunks of 8: two files, of the first
\* 8 and the last 4 bytes
C11_Witness ==
    /\ last.op = "write_ram_to_logfiles" /\ last.ok /\ last.w = "r1"
    /\ last.arg = <<OutLog>>
    /\ sys_stdout = "console_out"
    /\ self["r1"].max_logfile_size_bytes = 8
    /\ self["r1"].string_buffer = Hello \o Hello
    /\ Len(files) = 2
    /\ DOMAIN disk = {NumberedPath(OutLog, 1), NumberedPath(OutLog, 2)}
    /\ disk[NumberedPath(OutLog, 1)] = SubSeq(Encode(Hello \o Hello), 1, 8)
    /\ disk[NumberedPath(OutLog, 2)] = SubSeq(Encode(Hello \o Hello), 9, 12)

\* name is the base path d or a numbered path of it
IsFileOf(name, d) ==
    name = d \/ \E i \in 1..(Len(files') + 1) : name = NumberedPath(d, i)

\* C12: a write_ram_to_logfiles() call with several destinations that
\* returns has written, for every destination d of the argument list and
\* every chunk number j up to the chunk count, chunk j of the buffer to a
\* file of d.
C12_EveryDestinationGetsChunks ==
    [][\A w \in Cast :
         (IsCall("write_ram_to_logfiles", w) /\ last'.ok) =>
            LET bytes == Encode(self[w].string_buffer)
                k == self[w].max_logfile_size_bytes
                n == CeilDiv(Len(bytes), k)
                paths == last'.arg
            IN  \A i \in 1..Len(paths), j \in 1..n :
                   \E h \in (Len(files) + 1)..Len(files') :
                      /\ IsFileOf(files'[h].name, paths[i])
                      /\ files'[h].closed
                      /\ files'[h].pos = Len(Slice(bytes, k, j))
                      /\ self[w].append_lognum =>
                            disk'[files'[h].name] = Slice(bytes, k, j)
      ]_vars

\* C13: after a write_ram_to_logfiles() call that returns, every chunk of
\* the buffer is read back from its own file of the first destination: with
\* numbering, chunk j from the numbered path of index j; without, the first
\* chunk from the base path and each later chunk from a numbered path, no
\* two chunks from the same file.
C13_ChunksKeepTheirFiles ==
    [][\A w \in Cast :
         (IsCall("write_ram_to_logfiles", w) /\ last'.ok) =>
            LET bytes == Encode(self[w].string_buffer)
                k == self[w].max_logfile_size_bytes
                n == CeilDiv(Len(bytes), k)
                dest == last'.arg[1]
                base == Len(files)
                name(j) == files'[base + j].name
            IN  /\ Len(files') >= base + n
                /\ \A j \in 1..n :
                      /\ self[w].append_lognum => name(j) = NumberedPath(dest, j)
                      /\ (~self[w].append_lognum /\ j = 1) => name(j) = dest
                      /\ (~self[w].append_lognum /\ j > 1) =>
                            \E i \in 1..n : name(j) = NumberedPath(dest, i)
                      /\ \A j2 \in 1..n : name(j2) = name(j) => j2 = j
                      /\ disk'[name(j)] = Slice(bytes, k, j)
      ]_vars

Rams == {w \in Cast : self[w].kind = "TeeToRAM"}

\* C14: for a TeeToRAM writer, begin() returns with an empty buffer, every
\* write() of the session returns and appends its payload to what
\* get_ram_buffer() returns, neither opens a file, and end() leaves what
\* get_ram_buffer() returns as it was.
C14_RamBufferHoldsPayloads ==
    [][\A w \in Rams :
         LET before == get_ram_buffer(TheWorld, w)
             after == get_ram_buffer(TheWorld', w)
         IN  /\ IsCall("begin", w) =>
                   /\ last'.ok
                   /\ after.ok /\ after.val = <<>>
                   /\ files' = files
             /\ (IsCall("write", w) /\ hist[w].state = "active"
                   /\ self[w].stdout_bak \in Consoles) =>
                   /\ last'.ok
                   /\ before.ok /\ after.ok
                   /\ after.val = before.val \o last'.arg
                   /\ files' = files
             /\ (IsCall("end", w) /\ hist[w].state = "active") =>
                   /\ last'.ok
                   /\ before.ok /\ after.ok
                   /\ after.val = before.val
      ]_vars

\* a TeeToRAM session in which two payloads were written has ended and the
\* buffer holds both
C14_BufferAfterEnd ==
    /\ last.op = "end" /\ last.ok /\ last.w = "r1"
    /\ hist["r1"].state = "ended"
    /\ self["r1"].has_string_buffer
    /\ self["r1"].string_buffer = Hello \o Line
    /\ files = <<>>

\* C15: flush() called on a writer of either kind during its session, when
\* no storage device has failed, returns without an error and leaves every
\* file open or closed as it was, at its path, every sink of the writer with
\* the content it holds, and the RAM buffer as it was.
C15_FlushNeverFails ==
    [][\A w \in Cast :
         (IsCall("flush", w) /\ hist[w].state = "active" /\ count.fault = 0) =>
            /\ last'.ok
            /\ Len(files') = Len(files)
            /\ \A h \in 1..Len(files) :
                  /\ files'[h].closed = files[h].closed
                  /\ files'[h].name = files[h].name
            /\ self'[w].logfiles = self[w].logfiles
            /\ \A i \in 1..Len(self[w].logfiles) :
                  LET h == self[w].logfiles[i]
                  IN  SinkBytes(TheWorld', h) = SinkBytes(TheWorld, h)
            /\ self'[w].string_buffer = self[w].string_buffer
      ]_vars

\* writer w holds a file that is open
HasOpenSink(W, w) ==
    \E i \in 1..Len(W.self[w].logfiles) :
       /\ W.self[w].logfiles[i] # None
       /\ ~W.files[W.self[w].logfiles[i]].closed

\* C16: a Tee writer has no open sink before its first begin() and after an
\* end() that returned, and only a begin() call gives it one.  Every begin()
\* that returns, whatever the rotation indexes were, leaves each destination
\* with a new open file that is empty on disk, at the numbered path of index
\* 1 when append_lognum is true and at the base path otherwise.
C16_BeginStartsAfresh ==
    [][\A w \in Tees :
         /\ (~HasOpenSink(TheWorld, w) /\ HasOpenSink(TheWorld', w))
               => IsCall("begin", w)
         /\ (IsCall("end", w) /\ last'.ok) => ~HasOpenSink(TheWorld', w)
         /\ (IsCall("begin", w) /\ last'.ok) =>
               /\ Len(self'[w].logfiles) = Len(self[w].PATHS)
               /\ \A i \in 1..Len(self[w].PATHS) :
                     LET h == self'[w].logfiles[i]
                         first == IF self[w].append_lognum
                                  THEN NumberedPath(self[w].PATHS[i], 1)
                                  ELSE self[w].PATHS[i]
                     IN  /\ h > Len(files)
                         /\ ~files'[h].closed
                         /\ files'[h].name = first
                         /\ get_logfile_names(TheWorld', w)[i] = first
                         /\ self'[w].logfile_numbers[i]
                               = IF self[w].append_lognum THEN 1 ELSE 0
                         /\ files'[h].pos = 0 /\ files'[h].buf = <<>>
                         /\ disk'[first] = <<>>
      ]_vars

\* a session wrote a line, rotated to index 2 and ended; the next begin() is
\* back at index 1 on an empty file, and the file of index 2 still exists
C16_Witness ==
    /\ last.op = "begin" /\ last.ok /\ last.w = "t1"
    /\ self["t1"].append_lognum
    /\ self["t1"].PATHS = <<OutLog>>
    /\ NumberedPath(OutLog, 2) \in DOMAIN disk
    /\ Len(files) = 3
    /\ files[1].closed /\ files[2].closed
    /\ self["t1"].logfiles = <<3>>
    /\ self["t1"].logfile_numbers = <<1>>
    /\ files[3].name = NumberedPath(OutLog, 1)
    /\ disk[NumberedPath(OutLog, 1)] = <<>>
    /\ sys_stdout = "t1"
    /\ self["t1"].stdout_bak = "console_out"

\* where the final segment of p starts: after the last separator
SegmentStart(p) ==
    LET seps == {i \in 1..Len(p) : p[i] = "/"}
    IN  IF seps = {} THEN 1
        ELSE (CHOOSE i \in seps : \A j \in seps : j <= i) + 1

\* the dots of the final segment of p
SegmentDots(p) == {i \in SegmentStart(p)..Len(p) : p[i] = "."}

LastOf(S) == CHOOSE i \in S : \A j \in S : j <= i

\* p with _<index> inserted before position d
InsertedAt(p, d, index) ==
    SubSeq(p, 1, d - 1) \o <<"_">> \o Digits(index) \o SubSeq(p, d, Len(p))

\* C17 as stated: the numbered path is the base path with _<index> inserted
\* immediately before the last dot of the final path segment, or appended
\* at the end when that segment has no dot; nothing else changes, and a
\* second call with the same arguments returns the same path.
C17_BeforeLastDot ==
    [][last'.op = "_get_numbered_path" =>
         LET p == last'.arg[1]
             index == last'.arg[2]
         IN  /\ ret' = IF SegmentDots(p) = {}
                       THEN InsertedAt(p, Len(p) + 1, index)
                       ELSE InsertedAt(p, LastOf(SegmentDots(p)), index)
             /\ UNCHANGED <<self, sys_stdout, sys_stderr, files, disk, dirs,
                            console, failing, globals>>
             /\ last.op = "_get_numbered_path" => ret' = ret
      ]_vars

\* C17 amended: as stated, except that the last dot of the final segment
\* starts an extension only when a character other than a dot precedes it
\* in that segment; otherwise _<index> is appended at the end.
C17_BeforeExtension ==
    [][last'.op = "_get_numbered_path" =>
         LET p == last'.arg[1]
             index == last'.arg[2]
             d == LastOf(SegmentDots(p))
             HasExt == /\ SegmentDots(p) # {}
                       /\ \E j \in SegmentStart(p)..(d - 1) : p[j] # "."
         IN  /\ ret' = IF HasExt THEN InsertedAt(p, d, index)
                       ELSE InsertedAt(p, Len(p) + 1, index)
             /\ UNCHANGED <<self, sys_stdout, sys_stderr, files, disk, dirs,
                            console, failing, globals>>
             /\ last.op = "_get_numbered_path" => ret' = ret
      ]_vars

\* ./a.a with index 10 gave ./a_10.a: the dot of the parent directory is
\* ignored and the number stands before the extension
C17_Witness ==
    /\ last.op = "_get_numbered_path"
    /\ last.arg = <<<<".", "/", "a", ".", "a">>, 10>>
    /\ ret = <<".", "/", "a", "_", "1", "0", ".", "a">>

\* the path .a, whose only dot leads the final segment, gave .a_1
C17_DotFile ==
    /\ last.op = "_get_numbered_path"
    /\ last.arg = <<<<".", "a">>, 1>>
    /\ ret = <<".", "a", "_", "1">>

\* every destination of w has one sink, an open file, at the path of the
\* destination's recorded rotation index, and get_logfile_names() lists
\* these paths in destination order
OneOpenSinkEach(W, w) ==
    LET me == W.self[w]
        n == Len(me.PATHS)
    IN  /\ Len(me.logfiles) = n
        /\ Len(me.logfile_numbers) = n
        /\ \A i \in 1..n :
              /\ me.logfiles[i] # None
              /\ ~W.files[me.logfiles[i]].closed
              /\ \A j \in 1..n : me.logfiles[j] = me.logfiles[i] => j = i
              /\ W.files[me.logfiles[i]].name
                    = IF me.logfile_numbers[i] = 0 THEN me.PATHS[i]
                      ELSE NumberedPath(me.PATHS[i], me.logfile_numbers[i])
              /\ me.append_lognum => me.logfile_numbers[i] >= 1
        /\ Len(get_logfile_names(W, w)) = n
        /\ \A i \in 1..n :
              get_logfile_names(W, w)[i] = W.files[me.logfiles[i]].name

\* C18: during a Tee session every destination has exactly one sink, open,
\* named by get_logfile_names() and at the path of its recorded rotation
\* index: a begin() that returns establishes this, and every call other
\* than end() keeps it, a next_logfiles() that fails to open a successor
\* included.
C18_OneOpenSinkPerDestination ==
    [][\A w \in Tees :
         (/\ hist'[w].state = "active"
          /\ \/ IsCall("begin", w)
             \/ /\ hist[w].state = "active"
                /\ OneOpenSinkEach(TheWorld, w)
                /\ ~IsCall("end", w))
         => OneOpenSinkEach(TheWorld', w)
      ]_vars

\* the file of handle h holds, after the step, everything written through h
\* before the step and then text, and h has nothing buffered
OnDiskAfter(h, text) ==
    /\ files'[h].buf = <<>>
    /\ disk'[files[h].name] = SinkBytes(TheWorld, h) \o text
    /\ files'[h].pos = Len(disk'[files[h].name])

\* C19: with immediately_flush true, a write() that returns leaves every
\* sink's file holding all bytes written to the sink, the payload included.
\* With immediately_flush false bytes may stay buffered, but a flush() that
\* returns leaves every sink's file holding all bytes written to the sink,
\* and so does the close of a sink by a next_logfiles() or an end() that
\* returns: the file starts with everything written before the call, holds
\* nothing less than was written through the handle, and nothing is buffered.
C19_NoByteLost ==
    [][\A w \in Tees :
         LET Sinks == {self[w].logfiles[i] : i \in 1..Len(self[w].logfiles)}
         IN  /\ (IsCall("write", w) /\ last'.ok /\ self[w].immediately_flush) =>
                   \A h \in Sinks : OnDiskAfter(h, Encode(last'.arg))
             /\ (IsCall("flush", w) /\ last'.ok) =>
                   \A h \in Sinks : OnDiskAfter(h, <<>>)
             /\ ((IsCall("next_logfiles", w) \/ IsCall("end", w)) /\ last'.ok) =>
                   \A h \in Sinks :
                      (~files[h].closed /\ files'[h].closed) =>
                         LET written == SinkBytes(TheWorld, h)
                             held == disk'[files[h].name]
                         IN  /\ files'[h].buf = <<>>
                             /\ files'[h].pos = Len(held)
                             /\ Len(held) >= Len(written)
                             /\ SubSeq(held, 1, Len(written)) = written
      ]_vars

\* without immediately_flush a payload stayed buffered after write() and is
\* in the file once flush() has returned
C19_Witness ==
    /\ last.op = "flush" /\ last.ok /\ last.w = "t1"
    /\ hist["t1"].state = "active" /\ ~self["t1"].immediately_flush
    /\ hist["t1"].sent = Hello
    /\ count.calls = 3
    /\ \A i \in 1..Len(self["t1"].logfiles) :
          LET h == self["t1"].logfiles[i]
          IN  files[h].buf = <<>> /\ disk[files[h].name] = Encode(Hello)

\* without immediately_flush the payload is still buffered when write()
\* has returned
C19_BufferedCase ==
    /\ last.op = "write" /\ last.ok /\ last.w = "t1"
    /\ hist["t1"].state = "active" /\ ~self["t1"].immediately_flush
    /\ Len(self["t1"].logfiles) = 1
    /\ files[self["t1"].logfiles[1]].buf = Encode(Hello)
    /\ disk[files[self["t1"].logfiles[1]].name] = <<>>

\* with immediately_flush the payload is in both files when write() has
\* returned
C19_ImmediateCase ==
    /\ last.op = "write" /\ last.ok /\ last.w = "t1"
    /\ hist["t1"].state = "active" /\ self["t1"].immediately_flush
    /\ Len(self["t1"].logfiles) = 2
    /\ \A i \in 1..2 :
          LET h == self["t1"].logfiles[i]
          IN  files[h].buf = <<>> /\ disk[files[h].name] = Encode(Line)

\* the files of one destination, from rotation index from up to index to,
\* concatenated; index 0 is the unnumbered base path
RECURSIVE RotatedFiles(_, _, _, _)
RotatedFiles(D, base, from, to) ==
    IF from > to THEN <<>>
    ELSE LET path == IF from = 0 THEN base ELSE NumberedPath(base, from)
         IN  (IF path \in DOMAIN D THEN D[path] ELSE <<>>)
                \o RotatedFiles(D, base, from + 1, to)

\* the text the console has received since the writer's begin()
ConsoleSince(w) ==
    SubSeq(console'["console_out"], hist[w].mark + 1,
           Len(console'["console_out"]))

\* C20: when end() returns after a session in which only write(), flush()
\* and next_logfiles() of the writer were called and every call returned,
\* then for every destination the files from the starting index up to the
\* destination's current index, concatenated in index order, hold exactly
\* the text the console received during the session, the lines that
\* next_logfiles() prints included.
C20_RotationKeepsEverything ==
    [][\A w \in Tees :
         (IsCall("end", w) /\ last'.ok /\ hist[w].state = "active"
             /\ hist[w].steady) =>
            \A i \in 1..Len(self[w].PATHS) :
               RotatedFiles(disk', self[w].PATHS[i],
                            IF self[w].append_lognum THEN STARTING_LOGNUMBER
                            ELSE 0,
                            self[w].logfile_numbers[i])
                  = Encode(ConsoleSince(w))
      ]_vars

\* two destinations, each rotated once by the same check: the first
\* destination's second file starts with its own rotation line, the second
\* destination's first file ends with it
C20_Witness ==
    /\ last.op = "end" /\ last.ok /\ last.w = "t1"
    /\ hist["t1"].state = "ended" /\ hist["t1"].steady
    /\ self["t1"].PATHS = <<OutLog, ErrLog>>
    /\ self["t1"].logfile_numbers = <<2, 2>>
    /\ {NumberedPath(OutLog, 1), NumberedPath(OutLog, 2),
        NumberedPath(ErrLog, 1), NumberedPath(ErrLog, 2)} \subseteq DOMAIN disk
    /\ disk[NumberedPath(OutLog, 1)] = Encode(Line)
    /\ disk[NumberedPath(ErrLog, 1)] =
          Encode(Line \o OpenedMsg \o NumberedPath(OutLog, 2) \o <<"\n">>)
    /\ disk[NumberedPath(OutLog, 2)] =
          Encode(OpenedMsg \o NumberedPath(OutLog, 2) \o <<"\n">>
                    \o OpenedMsg \o NumberedPath(ErrLog, 2) \o <<"\n">>)
    /\ disk[NumberedPath(ErrLog, 2)] =
          Encode(OpenedMsg \o NumberedPath(ErrLog, 2) \o <<"\n">>)

\* a destination whose rotation index differs from another's when end()
\* returns after a session without failed calls
C20_UnequalRotations ==
    /\ last.op = "end" /\ last.ok /\ last.w = "t1"
    /\ hist["t1"].state = "ended" /\ hist["t1"].steady
    /\ Len(self["t1"].logfile_numbers) = 2
    /\ self["t1"].logfile_numbers[1] # self["t1"].logfile_numbers[2]

====
